---- MODULE Spec2Model ----
(***************************************************************************)
(* Block layout of nateyazdani/chameleon: src/layout.rs builds a tree of   *)
(* LayoutBoxes from a tree of StyledNodes, resolves the width, position    *)
(* and height of every block box, and folds the tree into a display list;  *)
(* src/paint.rs paints a display list onto a canvas of pixels.             *)
(*                                                                         *)
(* Pixels (f32, style.rs:38) are modelled as exact integers that count     *)
(* quarter pixels: a length of n px is the integer 4 * n.  Every length of *)
(* a style and the containing width are whole pixels, so the one division  *)
(* of the code, underflow / 2.0 (layout.rs:214-215), is exact, as it is in *)
(* f32 for lengths of this size; the rectangles handed to src/paint.rs     *)
(* may lie on any quarter pixel.                                           *)
(*                                                                         *)
(* A reference &'a Style (layout.rs:28) is modelled as the path of the     *)
(* StyledNode that owns the Style: the sequence of child indexes that      *)
(* leads from the root of the style tree to the node.                      *)
(***************************************************************************)
EXTENDS Integers, Sequences, FiniteSets, TLC

\* Most nodes of a style tree of the layout specification Spec.
MaxNodes == 4
\* Most nodes of a style tree of the builder specification SpecBuild.
MaxBuildNodes == 6
\* Longest fixed width, height or margin of a style, in px.
MaxLen == 2
\* Thickest border or padding edge of a style of SpecWidth, in px.
MaxEdge == 1
\* Widest containing block of SpecWidth, in px.
MaxWidth == 4
\* Widest and highest canvas of SpecPaint, in pixels.
MaxCanvas == 2
\* Longest display list of overlapping commands of SpecPaint.
MaxItems == 2

VARIABLES
    node,       \* the root StyledNode handed to layout_tree
    width,      \* layout_tree's width argument, in px
    pc,         \* where the caller of layout.rs stands
    result,     \* how the call of layout_tree ended
    root_box,   \* the LayoutBox layout_tree returned: <<>> or <<box>>
    list,       \* the DisplayList display_list returned, or the one to paint
    canvas,     \* the Canvas of paint_display_list: <<>> or <<canvas>>
    painted     \* the number of items paint_display_list's loop has painted

vars == <<node, width, pc, result, root_box, list, canvas, painted>>

-----------------------------------------------------------------------------
\* style.rs

Auto == [auto |-> TRUE, v |-> 0]

Given(v) == [auto |-> FALSE, v |-> v]

value(a) == IF a.auto THEN 0 ELSE a.v

is_auto(a) == a.auto

is_given(a) == ~a.auto

Displays == {"Inline", "Block", "None"}

Edge(l, r, t, b) == [left |-> l, right |-> r, top |-> t, bottom |-> b]

EdgeDefault == Edge(0, 0, 0, 0)

StyleDefault ==
    [display |-> "Inline",
     background_color |-> "default", border_color |-> "default",
     width |-> Auto, height |-> Auto,
     margin |-> Edge(Given(0), Given(0), Given(0), Given(0)),
     padding |-> EdgeDefault,
     border |-> EdgeDefault]

\* A style tree is drawn as its nodes in document order: depths[i] is the
\* depth of the i-th node (the root at depth 1) and styles[i] its style.
ValidDepths(depths) ==
    /\ depths[1] = 1
    /\ \A i \in 2..Len(depths) : 2 <= depths[i] /\ depths[i] <= depths[i - 1] + 1

\* The tree that starts at position i (ParseTree), and the sequence of
\* trees of depth d that starts at position i (ParseForest); next is the
\* position after them.
RECURSIVE ParseTree(_, _, _), ParseForest(_, _, _, _)
ParseTree(depths, styles, i) ==
    LET kids == ParseForest(depths, styles, i + 1, depths[i] + 1)
    IN  [tree |-> [specified |-> styles[i], children |-> kids.forest],
         next |-> kids.next]

ParseForest(depths, styles, i, d) ==
    IF i > Len(depths) \/ depths[i] # d THEN [forest |-> <<>>, next |-> i]
    ELSE LET first == ParseTree(depths, styles, i)
             rest == ParseForest(depths, styles, first.next, d)
         IN  [forest |-> <<first.tree>> \o rest.forest, next |-> rest.next]

\* node is a style tree of up to n nodes, every node styled from the set S.
IsStyledTree(S, n) ==
    \E k \in 1..n :
        \E depths \in [1..k -> 1..k] :
            /\ ValidDepths(depths)
            /\ \E styles \in [1..k -> S] :
                   node = ParseTree(depths, styles, 1).tree

\* The StyledNode a path leads to, from the StyledNode n.
RECURSIVE NodeAt(_, _)
NodeAt(n, ref) ==
    IF ref = <<>> THEN n ELSE NodeAt(n.children[Head(ref)], Tail(ref))

\* The Style a reference of a LayoutBox points to.
Deref(ref) == NodeAt(node, ref).specified

-----------------------------------------------------------------------------
\* layout.rs: the geometry types

Rect(x, y, w, h) == [x |-> x, y |-> y, width |-> w, height |-> h]

RectDefault == Rect(0, 0, 0, 0)

expanded_by_unshifted(self, edge) ==
    [x |-> self.x,
     y |-> self.y,
     width |-> self.width + edge.left + edge.right,
     height |-> self.height + edge.top + edge.bottom]

expanded_by(self, edge) ==
    [x |-> self.x - edge.left,
     y |-> self.y - edge.top,
     width |-> self.width + edge.left + edge.right,
     height |-> self.height + edge.top + edge.bottom]

padding_box(self) == expanded_by(self.content, self.padding)

border_box(self) == expanded_by(padding_box(self), self.border)

margin_box(self) == expanded_by(border_box(self), self.margin)

-----------------------------------------------------------------------------
\* layout.rs: the box-tree builder

\* LayoutBox::new were it to hold the style of the node's first child.
LayoutBox_new_child_style(box_type, style) ==
    [content |-> RectDefault, container |-> RectDefault,
     padding |-> EdgeDefault, border |-> EdgeDefault, margin |-> EdgeDefault,
     style |-> style \o <<1>>, anonymous |-> TRUE, box_type |-> box_type,
     children |-> <<>>]

LayoutBox_new(box_type, style) ==
    [content |-> RectDefault, container |-> RectDefault,
     padding |-> EdgeDefault, border |-> EdgeDefault, margin |-> EdgeDefault,
     style |-> style, anonymous |-> TRUE, box_type |-> box_type,
     children |-> <<>>]

\* A display of `none` makes of_style_node panic before any box exists; the
\* box_type "panic" stands for that unwinding.
of_style_node_none_as_inline(style_node, ref) ==
    [content |-> RectDefault, container |-> RectDefault,
     padding |-> EdgeDefault, border |-> EdgeDefault, margin |-> EdgeDefault,
     style |-> ref, anonymous |-> FALSE,
     box_type |-> IF style_node.specified.display = "Block" THEN "Block"
                  ELSE "Inline",
     children |-> <<>>]

of_style_node(style_node, ref) ==
    [content |-> RectDefault, container |-> RectDefault,
     padding |-> EdgeDefault, border |-> EdgeDefault, margin |-> EdgeDefault,
     style |-> ref, anonymous |-> FALSE,
     box_type |-> CASE style_node.specified.display = "Block" -> "Block"
                    [] style_node.specified.display = "Inline" -> "Inline"
                    [] style_node.specified.display = "None" -> "panic",
     children |-> <<>>]

is_anonymous_block(self) == self.box_type = "Block" /\ self.anonymous

is_anonymous_inline(self) == self.box_type = "Inline" /\ self.anonymous

\* The &mut LayoutBox get_inline_container returns is the pair of self as the
\* call leaves it (box) and the place in it a new inline child goes to
\* (target): 0 for self, i for self.children[i].
get_inline_container_self(self) == [box |-> self, target |-> 0]

get_inline_container_always_new(self) ==
    IF self.box_type = "Inline" THEN [box |-> self, target |-> 0]
    ELSE [box |-> [self EXCEPT !.children =
                       Append(@, LayoutBox_new("Block", self.style))],
          target |-> Len(self.children) + 1]

get_inline_container(self) ==
    IF self.box_type = "Inline" THEN [box |-> self, target |-> 0]
    ELSE LET n == Len(self.children)
             last_is_anonymous_block ==
                 IF n = 0 THEN FALSE ELSE is_anonymous_block(self.children[n])
             pushed ==
                 IF ~last_is_anonymous_block
                 THEN [self EXCEPT !.children =
                           Append(@, LayoutBox_new("Block", self.style))]
                 ELSE self
         IN  [box |-> pushed, target |-> Len(pushed.children)]

\* container.children.push(child), for the container get_inline_container named.
push_into(container, child) ==
    IF container.target = 0
    THEN [container.box EXCEPT !.children = Append(@, child)]
    ELSE [container.box EXCEPT
              !.children[container.target].children = Append(@, child)]

RECURSIVE build_layout_tree(_, _)

\* One turn of build_layout_tree's loop: the match on the child's display.
build_child_block_first(root, child, ref) ==
    CASE child.specified.display = "Block" ->
             [root EXCEPT !.children = <<build_layout_tree(child, ref)>> \o @]
      [] child.specified.display = "Inline" ->
             push_into(get_inline_container(root), build_layout_tree(child, ref))
      [] child.specified.display = "None" -> root

build_child(root, child, ref) ==
    CASE child.specified.display = "Block" ->
             [root EXCEPT !.children = Append(@, build_layout_tree(child, ref))]
      [] child.specified.display = "Inline" ->
             push_into(get_inline_container(root), build_layout_tree(child, ref))
      [] child.specified.display = "None" -> root

\* build_layout_tree's loop from the i-th child of style_node on.
RECURSIVE build_children(_, _, _, _)
build_children(root, style_node, ref, i) ==
    IF i > Len(style_node.children) THEN root
    ELSE build_children(build_child(root, style_node.children[i], ref \o <<i>>),
                        style_node, ref, i + 1)

build_layout_tree(style_node, ref) ==
    LET root == of_style_node(style_node, ref)
    IN  IF root.box_type = "panic" THEN root
        ELSE build_children(root, style_node, ref, 1)

-----------------------------------------------------------------------------
\* layout.rs: the block layout solver

\* `width as Pixels` (layout.rs:101): a usize of whole pixels as a length.
as_Pixels(n) == 4 * n

\* The sum of the seven horizontal quantities, an auto one counting 0.
total_of(width_, margin_left, margin_right, style) ==
    value(margin_left) + value(margin_right)
    + style.border.left + style.border.right
    + style.padding.left + style.padding.right
    + value(width_)

\* If width is not auto and the total is wider than the container, an auto
\* margin is treated as 0.
keep_auto_margin(margin, width_, total, container_width) == margin

treat_auto_margin_as_0(margin, width_, total, container_width) ==
    IF is_given(width_) /\ total > container_width /\ is_auto(margin)
    THEN Given(0)
    ELSE margin

\* The arm (false, false, false) of the match: the values are
\* overconstrained and margin_right takes the underflow.
overconstrained_drops_margin(width_, margin_left, margin_right, underflow) ==
    [width |-> width_, margin_left |-> margin_left,
     margin_right |-> Given(underflow)]

overconstrained(width_, margin_left, margin_right, underflow) ==
    [width |-> width_, margin_left |-> margin_left,
     margin_right |-> Given(value(margin_right) + underflow)]

\* The arm (true, _, _) of the match: width is auto.
auto_width_unclamped(width_, margin_left, margin_right, underflow) ==
    [width |-> Given(underflow),
     margin_left |-> IF is_auto(margin_left) THEN Given(0) ELSE margin_left,
     margin_right |-> IF is_auto(margin_right) THEN Given(0) ELSE margin_right]

auto_width(width_, margin_left, margin_right, underflow) ==
    LET ml == IF is_auto(margin_left) THEN Given(0) ELSE margin_left
        mr == IF is_auto(margin_right) THEN Given(0) ELSE margin_right
    IN  [width |-> Given(IF underflow > 0 THEN underflow ELSE 0),
         margin_left |-> ml,
         margin_right |-> IF underflow < 0
                          THEN Given(value(mr) + underflow)
                          ELSE mr]

\* The match of calculate_block_width: the used width and horizontal margins.
adjust_used_values(width_, margin_left, margin_right, underflow) ==
    CASE ~is_auto(width_) /\ ~is_auto(margin_left) /\ ~is_auto(margin_right) ->
             overconstrained(width_, margin_left, margin_right, underflow)
      [] ~is_auto(width_) /\ ~is_auto(margin_left) /\ is_auto(margin_right) ->
             [width |-> width_, margin_left |-> margin_left,
              margin_right |-> Given(underflow)]
      [] ~is_auto(width_) /\ is_auto(margin_left) /\ ~is_auto(margin_right) ->
             [width |-> width_, margin_left |-> Given(underflow),
              margin_right |-> margin_right]
      [] is_auto(width_) ->
             auto_width(width_, margin_left, margin_right, underflow)
      [] ~is_auto(width_) /\ is_auto(margin_left) /\ is_auto(margin_right) ->
             [width |-> width_, margin_left |-> Given(underflow \div 2),
              margin_right |-> Given(underflow \div 2)]

calculate_block_width(self) ==
    LET style == Deref(self.style)
        total == total_of(style.width, style.margin.left, style.margin.right,
                          style)
        margin_left == treat_auto_margin_as_0(style.margin.left, style.width,
                                              total, self.container.width)
        margin_right == treat_auto_margin_as_0(style.margin.right, style.width,
                                               total, self.container.width)
        underflow == self.container.width - total
        used == adjust_used_values(style.width, margin_left, margin_right,
                                   underflow)
    IN  [self EXCEPT !.content.width = value(used.width),
                     !.padding.left = style.padding.left,
                     !.padding.right = style.padding.right,
                     !.border.left = style.border.left,
                     !.border.right = style.border.right,
                     !.margin.left = value(used.margin_left),
                     !.margin.right = value(used.margin_right)]

calculate_block_position_at_top(self) ==
    LET style == Deref(self.style)
        edged == [self EXCEPT !.margin.top = value(style.margin.top),
                              !.margin.bottom = value(style.margin.bottom),
                              !.border.top = style.border.top,
                              !.border.bottom = style.border.bottom,
                              !.padding.top = style.padding.top,
                              !.padding.bottom = style.padding.bottom]
    IN  [edged EXCEPT
            !.content.x = edged.container.x + edged.margin.left
                          + edged.border.left + edged.padding.left,
            !.content.y = edged.container.y
                          + edged.margin.top + edged.border.top
                          + edged.padding.top]

calculate_block_position(self) ==
    LET style == Deref(self.style)
        edged == [self EXCEPT !.margin.top = value(style.margin.top),
                              !.margin.bottom = value(style.margin.bottom),
                              !.border.top = style.border.top,
                              !.border.bottom = style.border.bottom,
                              !.padding.top = style.padding.top,
                              !.padding.bottom = style.padding.bottom]
    IN  [edged EXCEPT
            !.content.x = edged.container.x + edged.margin.left
                          + edged.border.left + edged.padding.left,
            !.content.y = edged.container.y + edged.container.height
                          + edged.margin.top + edged.border.top
                          + edged.padding.top]

calculate_block_height_of_children(self) == self

calculate_block_height(self) ==
    LET style == Deref(self.style)
    IN  IF is_given(style.height)
        THEN [self EXCEPT !.content.height = style.height.v]
        ELSE self

RECURSIVE layout(_)

\* layout_block_children's loop from the i-th child of self on.
RECURSIVE layout_children_from(_, _)
layout_children_from(self, i) ==
    IF i > Len(self.children) THEN self
    ELSE LET child == layout([self.children[i] EXCEPT
                                  !.container = self.content])
         IN  layout_children_from(
                 [self EXCEPT !.children[i] = child,
                              !.content.height = @ + margin_box(child).height],
                 i + 1)

layout_block_children(self) == layout_children_from(self, 1)

layout_block(self) ==
    calculate_block_height(
        layout_block_children(
            calculate_block_position(
                calculate_block_width(self))))

layout(self) ==
    CASE self.box_type = "Block" -> layout_block(self)
      [] self.box_type = "Inline" -> self

-----------------------------------------------------------------------------
\* layout.rs: the display list

SolidColor(color, x, y, w, h) ==
    [color |-> color, x |-> x, y |-> y, width |-> w, height |-> h]

render_background(self, l) ==
    LET color == Deref(self.style).background_color
        bb == border_box(self)
    IN  Append(l, SolidColor(color, bb.x, bb.y, bb.width, bb.height))

render_borders(self, l) ==
    LET color == Deref(self.style).border_color
        bb == border_box(self)
    IN  l \o <<SolidColor(color, bb.x, bb.y, self.border.left, bb.height),
               SolidColor(color, bb.x + bb.width - self.border.right, bb.y,
                          self.border.right, bb.height),
               SolidColor(color, bb.x, bb.y, bb.width, self.border.top),
               SolidColor(color, bb.x, bb.y + bb.height - self.border.bottom,
                          bb.width, self.border.bottom)>>

RECURSIVE render(_, _)

\* render's loop from the i-th child of self on.
RECURSIVE render_children_from(_, _, _)
render_children_from(self, l, i) ==
    IF i > Len(self.children) THEN l
    ELSE render_children_from(self, render(self.children[i], l), i + 1)

\* render were it to emit the children before the box's own commands.
render_children_first(self, l) ==
    render_borders(self, render_background(self, render_children_from(self, l, 1)))

render(self, l) ==
    render_children_from(self, render_borders(self, render_background(self, l)), 1)

-----------------------------------------------------------------------------
\* paint.rs: the canvas

\* Canvas::new: width * height pixels of opaque white.  A pixel is modelled
\* as the colors blended into it, the lowest first.
Canvas_new(w, h) ==
    [pixels |-> [i \in 1..(w * h) |-> <<"white">>], width |-> w, height |-> h]

\* color.over(under) of css::Color: the blend is kept as a term, the color
\* on top of the colors below it.
over(color, under) == Append(under, color)

max(a, b) == IF a >= b THEN a ELSE b

min(a, b) == IF a <= b THEN a ELSE b

\* clamp were it to have no upper limit.
clamp_lower_only(self, lower, upper) == max(self, lower)

clamp(self, lower, upper) == min(max(self, lower), upper)

\* The cast `as usize` of an f32: towards zero, and 0 for a negative one.
as_usize(p) == IF p < 0 THEN 0 ELSE p \div as_Pixels(1)

\* The indexes i of paint_item's two loops; pixels[i] is the (i + 1)-th
\* element of the sequence pixels.
paint_indexes(self, item) ==
    LET x0 == as_usize(clamp(item.x, 0, as_Pixels(self.width)))
        y0 == as_usize(clamp(item.y, 0, as_Pixels(self.height)))
        x1 == as_usize(clamp(item.x + item.width, 0, as_Pixels(self.width)))
        y1 == as_usize(clamp(item.y + item.height, 0, as_Pixels(self.height)))
    IN  {y * self.width + x : x \in x0..(x1 - 1), y \in y0..(y1 - 1)}

paint_item(self, item) ==
    [self EXCEPT !.pixels =
        [i \in DOMAIN @ |->
            IF (i - 1) \in paint_indexes(self, item)
            THEN over(item.color, @[i]) ELSE @[i]]]

-----------------------------------------------------------------------------
\* The calls of the caller: layout_tree, then display_list on its result.

\* layout_tree returns the laid-out tree.
layout_tree ==
    /\ pc = "start"
    /\ LET built == build_layout_tree(node, <<>>)
       IN  /\ built.box_type # "panic"
           /\ root_box' = <<layout([built EXCEPT
                                        !.container.width = as_Pixels(width)])>>
    /\ pc' = "laid_out"
    /\ result' = "LayoutBox"
    /\ UNCHANGED <<node, width, list, canvas, painted>>

\* layout_tree unwinds with the panic of of_style_node: nothing is returned.
layout_tree_panic ==
    /\ pc = "start"
    /\ build_layout_tree(node, <<>>).box_type = "panic"
    /\ pc' = "panicked"
    /\ result' = "panic"
    /\ UNCHANGED <<node, width, root_box, list, canvas, painted>>

display_list ==
    /\ pc = "laid_out"
    /\ list' = render(root_box[1], <<>>)
    /\ pc' = "listed"
    /\ UNCHANGED <<node, width, result, root_box, canvas, painted>>

Next == layout_tree \/ layout_tree_panic \/ display_list

\* One turn of paint_display_list's loop: paint_item on the next item.  An
\* index past the end of pixels makes the indexing panic.
paint_display_list_item ==
    /\ pc = "painting"
    /\ painted < Len(list)
    /\ IF \A i \in paint_indexes(canvas[1], list[painted + 1]) :
              i < Len(canvas[1].pixels)
       THEN /\ canvas' = <<paint_item(canvas[1], list[painted + 1])>>
            /\ painted' = painted + 1
            /\ pc' = pc
       ELSE /\ pc' = "paint_panicked"
            /\ UNCHANGED <<canvas, painted>>
    /\ UNCHANGED <<node, width, result, root_box, list>>

\* paint_display_list returns the canvas after the last item.
paint_display_list_return ==
    /\ pc = "painting"
    /\ painted = Len(list)
    /\ pc' = "painted"
    /\ UNCHANGED <<node, width, result, root_box, list, canvas, painted>>

NextPaint == paint_display_list_item \/ paint_display_list_return

-----------------------------------------------------------------------------
\* The inputs

Px(n) == 4 * n

BlockPlain ==
    [StyleDefault EXCEPT !.display = "Block", !.background_color = "white",
                         !.border_color = "black"]

BlockEdged ==
    [BlockPlain EXCEPT
        !.margin = Edge(Given(Px(1)), Given(0), Given(Px(1)), Given(Px(2))),
        !.border = Edge(0, Px(1), Px(2), Px(1)),
        !.padding = Edge(Px(1), Px(1), Px(1), 0),
        !.background_color = "red", !.border_color = "green"]

BlockSized ==
    [BlockEdged EXCEPT !.width = Given(Px(MaxLen)), !.height = Given(Px(MaxLen)),
                       !.background_color = "blue", !.border_color = "yellow"]

\* The styles of the nodes of Spec.
LayoutStyles ==
    {[StyleDefault EXCEPT !.display = "None"], StyleDefault,
     BlockPlain, BlockEdged, BlockSized}

\* The styles of the nodes of SpecBuild: the defaults but for the display.
BuildStyles == {[StyleDefault EXCEPT !.display = d] : d \in Displays}

AutoOrGiven == {Auto} \cup {Given(Px(n)) : n \in 0..MaxLen}

\* The styles of the one node of SpecWidth: every horizontal quantity of a
\* block, and the defaults of the other displays.
WidthStyles ==
    {[BlockPlain EXCEPT !.width = w, !.margin.left = ml, !.margin.right = mr,
                        !.border.left = Px(e[1]), !.border.right = Px(e[2]),
                        !.padding.left = Px(e[3]), !.padding.right = Px(e[4])] :
        w \in AutoOrGiven, ml \in AutoOrGiven, mr \in AutoOrGiven,
        e \in (0..MaxEdge) \X (0..MaxEdge) \X (0..MaxEdge) \X (0..MaxEdge)}
    \cup {StyleDefault, [StyleDefault EXCEPT !.display = "None"]}

InitCall ==
    /\ pc = "start"
    /\ result = "none"
    /\ root_box = <<>>
    /\ list = <<>>
    /\ canvas = <<>>
    /\ painted = 0

\* Layout of style trees of mixed block styles.
Init ==
    /\ IsStyledTree(LayoutStyles, MaxNodes)
    /\ width \in {0, 3 * MaxWidth}
    /\ InitCall

Spec == Init /\ [][Next]_vars

\* The builder on every style tree, the styles differing in the display.
InitBuild ==
    /\ IsStyledTree(BuildStyles, MaxBuildNodes)
    /\ width \in {MaxWidth}
    /\ InitCall

SpecBuild == InitBuild /\ [][Next]_vars

\* Width resolution of one box, over every horizontal style.
InitWidth ==
    /\ node \in {[specified |-> s, children |-> <<>>] : s \in WidthStyles}
    /\ width \in 0..MaxWidth
    /\ InitCall

SpecWidth == InitWidth /\ [][Next]_vars

\* The corners of the rectangles of SpecPaint, in quarter pixels: left of
\* the canvas, on and between pixel edges, and past the widest canvas.
Origins == {-Px(1), 0, 2, 3, Px(1), Px(MaxCanvas) + 2}

\* Their widths and heights: negative, zero, parts of a pixel, a pixel, a
\* pixel and a half, and more than the widest canvas.
Sizes == {-Px(1), 0, 1, Px(1), Px(1) + 2, Px(MaxCanvas + 2)}

\* Every rectangle over Origins and Sizes, in one color.
AnyCommands ==
    {SolidColor("red", x, y, w, h) :
        x \in Origins, y \in Origins, w \in Sizes, h \in Sizes}

\* Rectangles that overlap on the canvas, in two colors: the left column,
\* the top row, and a pixel-sized square off the pixel grid.
OverlappingCommands ==
    {SolidColor(c, r[1], r[2], r[3], r[4]) :
        c \in {"red", "blue"},
        r \in {<<0, 0, Px(1), Px(MaxCanvas)>>, <<0, 0, Px(MaxCanvas), Px(1)>>,
                <<3, 3, Px(1), Px(1)>>}}

\* paint_display_list after Canvas::new, on every canvas of up to MaxCanvas
\* by MaxCanvas pixels: every one command of AnyCommands, and every list of
\* up to MaxItems commands of OverlappingCommands.
InitPaint ==
    /\ node = [specified |-> StyleDefault, children |-> <<>>]
    /\ width = 0
    /\ result = "none"
    /\ root_box = <<>>
    /\ \/ list \in {<<c>> : c \in AnyCommands}
       \/ \E n \in 0..MaxItems : list \in [1..n -> OverlappingCommands]
    /\ \E w \in 0..MaxCanvas, h \in 0..MaxCanvas : canvas = <<Canvas_new(w, h)>>
    /\ painted = 0
    /\ pc = "painting"

SpecPaint == InitPaint /\ [][NextPaint]_vars

-----------------------------------------------------------------------------
\* The boxes of a tree

\* Every box of the tree of b.
RECURSIVE Boxes(_)
Boxes(b) == {b} \cup UNION {Boxes(b.children[i]) : i \in 1..Len(b.children)}

\* The boxes of the tree of b that layout_block ran on: layout descends
\* from the root through block boxes only.
RECURSIVE LaidOut(_)
LaidOut(b) ==
    IF b.box_type = "Block"
    THEN {b} \cup UNION {LaidOut(b.children[i]) : i \in 1..Len(b.children)}
    ELSE {}

Returned == result = "LayoutBox"

\* The sum of the fixed horizontal quantities of a style.
KnownSum(style) ==
    (IF style.width.auto THEN 0 ELSE style.width.v)
    + (IF style.margin.left.auto THEN 0 ELSE style.margin.left.v)
    + (IF style.margin.right.auto THEN 0 ELSE style.margin.right.v)
    + style.border.left + style.border.right
    + style.padding.left + style.padding.right

\* The underflow of a laid-out box: its containing width less the known sum.
Underflow(b) == b.container.width - KnownSum(Deref(b.style))

-----------------------------------------------------------------------------
C2_WidthConservation ==
    Returned =>
        \A b \in LaidOut(root_box[1]) :
            b.margin.left + b.border.left + b.padding.left + b.content.width
            + b.padding.right + b.border.right + b.margin.right
            = b.container.width

\* A box of fixed width and fixed non-zero margins wider than its containing
\* block: margin-right absorbed the negative underflow.
C2_Witness ==
    /\ Returned
    /\ \E b \in LaidOut(root_box[1]) :
           LET style == Deref(b.style)
           IN  /\ ~style.width.auto
               /\ ~style.margin.left.auto /\ style.margin.left.v > 0
               /\ ~style.margin.right.auto /\ style.margin.right.v > 0
               /\ Underflow(b) < 0
               /\ b.margin.right = style.margin.right.v + Underflow(b)

\* C3, as stated: a block box of fixed width and automatic margin-left and
\* margin-right has used margin-left = used margin-right, for every
\* underflow, negative ones included.
C3_EqualSplitAlways ==
    Returned =>
        \A b \in LaidOut(root_box[1]) :
            LET style == Deref(b.style)
            IN  (~style.width.auto /\ style.margin.left.auto
                 /\ style.margin.right.auto)
                => b.margin.left = b.margin.right

\* C3, amended: a block box of fixed width and automatic margin-left and
\* margin-right has used margin-left = used margin-right = underflow / 2
\* for every underflow >= 0; with a negative underflow the automatic
\* margins are treated as 0, so used margin-left = 0 and used margin-right
\* = underflow.
C3_EqualSplit ==
    Returned =>
        \A b \in LaidOut(root_box[1]) :
            LET style == Deref(b.style)
            IN  (~style.width.auto /\ style.margin.left.auto
                 /\ style.margin.right.auto)
                => IF Underflow(b) >= 0
                   THEN /\ b.margin.left = b.margin.right
                        /\ b.margin.left + b.margin.right = Underflow(b)
                   ELSE /\ b.margin.left = 0
                        /\ b.margin.right = Underflow(b)

\* A box of fixed width and automatic margins in a wider containing block:
\* both used margins are the same positive length.
C3_Witness ==
    /\ Returned
    /\ \E b \in LaidOut(root_box[1]) :
           LET style == Deref(b.style)
           IN  /\ ~style.width.auto /\ style.width.v > 0
               /\ style.margin.left.auto /\ style.margin.right.auto
               /\ Underflow(b) > 0
               /\ b.margin.left > 0
               /\ b.margin.left = b.margin.right

\* C4: non-negative width.  The used content width of a block box is never
\* negative; with an automatic width it is max(underflow, 0), automatic
\* margins become 0, and a negative underflow is added to used margin-right.
C4_NonNegativeWidth ==
    Returned =>
        \A b \in LaidOut(root_box[1]) :
            LET style == Deref(b.style)
                u == Underflow(b)
            IN  /\ b.content.width >= 0
                /\ style.width.auto =>
                       /\ b.content.width = (IF u > 0 THEN u ELSE 0)
                       /\ b.margin.left = (IF style.margin.left.auto THEN 0
                                           ELSE style.margin.left.v)
                       /\ b.margin.right =
                              (IF style.margin.right.auto THEN 0
                               ELSE style.margin.right.v)
                              + (IF u < 0 THEN u ELSE 0)

\* A box of automatic width whose borders and paddings alone are wider than
\* its containing block: used width 0, and a negative used margin-right.
C4_Witness ==
    /\ Returned
    /\ \E b \in LaidOut(root_box[1]) :
           LET style == Deref(b.style)
           IN  /\ style.width.auto /\ style.margin.right.auto
               /\ Underflow(b) < 0
               /\ b.content.width = 0
               /\ b.margin.right = Underflow(b)

-----------------------------------------------------------------------------
\* The builder's tree against the style tree

\* The positions, from i on, of the children of the StyledNode n whose
\* display is not none, in document order.
RECURSIVE RenderedFrom(_, _)
RenderedFrom(n, i) ==
    IF i > Len(n.children) THEN <<>>
    ELSE (IF n.children[i].specified.display = "None" THEN <<>> ELSE <<i>>)
         \o RenderedFrom(n, i + 1)

\* The displays of the children of the StyledNode n that are not none.
RenderedKinds(n) ==
    LET at == RenderedFrom(n, 1)
    IN  [k \in 1..Len(at) |-> n.children[at[k]].specified.display]

\* The boxes cs from the i-th on, each anonymous one replaced by its children.
RECURSIVE FlattenFrom(_, _)
FlattenFrom(cs, i) ==
    IF i > Len(cs) THEN <<>>
    ELSE (IF cs[i].anonymous THEN cs[i].children ELSE <<cs[i]>>)
         \o FlattenFrom(cs, i + 1)

\* The paths of the StyledNodes of the tree of n, at path ref, that neither
\* have display none nor lie below a node of display none.
RECURSIVE VisiblePaths(_, _)
VisiblePaths(n, ref) ==
    IF n.specified.display = "None" THEN {}
    ELSE {ref} \cup UNION {VisiblePaths(n.children[i], ref \o <<i>>) :
                           i \in 1..Len(n.children)}

\* How many boxes of the tree of b are not anonymous.
RECURSIVE NumNamed(_)
NumNamed(b) ==
    LET below[i \in 0..Len(b.children)] ==
            IF i = 0 THEN 0 ELSE below[i - 1] + NumNamed(b.children[i])
    IN  (IF b.anonymous THEN 0 ELSE 1) + below[Len(b.children)]

\* A sequence of kinds as its maximal runs, read from the right: 0 for a
\* Block, and the length of the run for each maximal run of Inlines.
RECURSIVE RunLengths(_)
RunLengths(kinds) ==
    IF kinds = <<>> THEN <<>>
    ELSE LET rest == RunLengths(Tail(kinds))
         IN  IF Head(kinds) = "Block" THEN <<0>> \o rest
             ELSE IF rest # <<>> /\ Head(rest) > 0
                  THEN <<Head(rest) + 1>> \o Tail(rest)
                  ELSE <<1>> \o rest

\* The positions where a maximal run of Inlines starts.
RunStarts(kinds) ==
    {i \in 1..Len(kinds) :
        kinds[i] = "Inline" /\ (i = 1 \/ kinds[i - 1] # "Inline")}

C6_AnonymousCoalescing ==
    Returned =>
        \A b \in Boxes(root_box[1]) :
            (b.box_type = "Block" /\ ~b.anonymous) =>
                LET kinds == RenderedKinds(NodeAt(node, b.style))
                    wrappers == {i \in 1..Len(b.children) :
                                     b.children[i].anonymous}
                IN  /\ Cardinality(wrappers) = Cardinality(RunStarts(kinds))
                    /\ \A i \in wrappers : Len(b.children[i].children) > 0
                    /\ \A i \in wrappers : i + 1 \notin wrappers
                    /\ [i \in 1..Len(b.children) |->
                            IF b.children[i].anonymous
                            THEN Len(b.children[i].children) ELSE 0]
                       = RunLengths(kinds)

\* The example of the claim: a block root with children of kinds block,
\* inline, inline, block, inline has four children, the second a wrapper
\* of two boxes and the fourth a wrapper of one.
C6_Witness ==
    /\ Returned
    /\ node.specified.display = "Block"
    /\ [i \in 1..Len(node.children) |-> node.children[i].specified.display]
       = <<"Block", "Inline", "Inline", "Block", "Inline">>
    /\ Len(root_box[1].children) = 4
    /\ [i \in 1..4 |-> root_box[1].children[i].anonymous]
       = <<FALSE, TRUE, FALSE, TRUE>>
    /\ Len(root_box[1].children[2].children) = 2
    /\ Len(root_box[1].children[4].children) = 1

\* C7: order and omission.  For every box of a StyledNode n, its children,
\* each anonymous wrapper replaced by its own children, are in document
\* order the boxes of just those children of n whose display is not none;
\* a node of display none and its descendants have no box, and every box
\* that is not anonymous is the box of exactly one node.
C7_OrderAndOmission ==
    Returned =>
        /\ ~root_box[1].anonymous /\ root_box[1].style = <<>>
        /\ \A b \in Boxes(root_box[1]) :
               ~b.anonymous =>
                   LET n == NodeAt(node, b.style)
                       at == RenderedFrom(n, 1)
                       flat == FlattenFrom(b.children, 1)
                   IN  /\ Len(flat) = Len(at)
                       /\ \A k \in 1..Len(flat) :
                              /\ ~flat[k].anonymous
                              /\ flat[k].style = b.style \o <<at[k]>>
                              /\ flat[k].box_type
                                 = n.children[at[k]].specified.display
        /\ {b.style : b \in {c \in Boxes(root_box[1]) : ~c.anonymous}}
           = VisiblePaths(node, <<>>)
        /\ NumNamed(root_box[1]) = Cardinality(VisiblePaths(node, <<>>))

\* A root whose second child has display none and children of its own,
\* between a first and a third child that have boxes of different kinds.
C7_Witness ==
    /\ Returned
    /\ Len(node.children) >= 3
    /\ node.children[1].specified.display = "Inline"
    /\ node.children[2].specified.display = "None"
    /\ Len(node.children[2].children) > 0
    /\ node.children[2].children[1].specified.display # "None"
    /\ node.children[3].specified.display = "Block"
    /\ Len(FlattenFrom(root_box[1].children, 1)) = Len(node.children) - 1

-----------------------------------------------------------------------------
\* The geometry of a laid-out tree

\* The top edge and the height of the margin box of a box, from its used
\* values.
MarginTop(c) == c.content.y - c.padding.top - c.border.top - c.margin.top

MarginHeight(c) ==
    c.margin.top + c.border.top + c.padding.top + c.content.height
    + c.padding.bottom + c.border.bottom + c.margin.bottom

\* The sum of the margin-box heights of the children of b before the k-th.
RECURSIVE HeightsBefore(_, _)
HeightsBefore(b, k) ==
    IF k <= 1 THEN 0
    ELSE HeightsBefore(b, k - 1) + MarginHeight(b.children[k - 1])

\* The rectangle outer holds the rectangle inner.
Contains(outer, inner) ==
    /\ outer.x <= inner.x
    /\ outer.y <= inner.y
    /\ inner.x + inner.width <= outer.x + outer.width
    /\ inner.y + inner.height <= outer.y + outer.height

\* The rectangle outer is the rectangle inner grown by the edges.
GrownBy(outer, inner, edge) ==
    /\ outer.x = inner.x - edge.left
    /\ outer.y = inner.y - edge.top
    /\ outer.width = inner.width + edge.left + edge.right
    /\ outer.height = inner.height + edge.top + edge.bottom

\* C8, as stated: the margin box of child k of a laid-out block box starts
\* at the parent's content y plus the margin-box heights of the children
\* before it, for every child.
C8_SiblingStackingAll ==
    Returned =>
        \A b \in LaidOut(root_box[1]) :
            \A k \in 1..Len(b.children) :
                MarginTop(b.children[k]) = b.content.y + HeightsBefore(b, k)

\* C8, amended: the margin box of every block child k of a laid-out block
\* box starts at the parent's content y plus the margin-box heights of the
\* children before it, so consecutive block siblings abut with no gap, no
\* overlap and no margin collapsing; an inline child (a child of an
\* anonymous wrapper) is not positioned: its rectangles stay at the origin
\* with no size.
C8_SiblingStacking ==
    Returned =>
        \A b \in LaidOut(root_box[1]) :
            \A k \in 1..Len(b.children) :
                IF b.children[k].box_type = "Block"
                THEN /\ MarginTop(b.children[k])
                        = b.content.y + HeightsBefore(b, k)
                     /\ b.children[k].content.y
                        = b.content.y + HeightsBefore(b, k)
                          + b.children[k].margin.top
                          + b.children[k].border.top
                          + b.children[k].padding.top
                ELSE /\ b.children[k].content = RectDefault
                     /\ MarginTop(b.children[k]) = 0
                     /\ MarginHeight(b.children[k]) = 0

\* A laid-out box below the top of the page with three block children of
\* positive margin-box height.
C8_Witness ==
    /\ Returned
    /\ \E b \in LaidOut(root_box[1]) :
           /\ b.content.y > 0
           /\ Len(b.children) >= 3
           /\ \A k \in 1..Len(b.children) :
                  /\ b.children[k].box_type = "Block"
                  /\ MarginHeight(b.children[k]) > 0
           /\ MarginTop(b.children[3]) > MarginTop(b.children[2])

\* C9: height resolution.  A laid-out block box of fixed style height has
\* that height whatever its children; any other has the sum of the
\* margin-box heights of its children, 0 without children.
C9_HeightResolution ==
    Returned =>
        \A b \in LaidOut(root_box[1]) :
            LET style == Deref(b.style)
            IN  /\ ~style.height.auto => b.content.height = style.height.v
                /\ style.height.auto =>
                       b.content.height
                       = HeightsBefore(b, Len(b.children) + 1)
                /\ (style.height.auto /\ Len(b.children) = 0) =>
                       b.content.height = 0

\* A box of fixed height whose children add up to another height, and a
\* box of automatic height that its children give a positive height.
C9_Witness ==
    /\ Returned
    /\ \E b \in LaidOut(root_box[1]) :
           /\ ~Deref(b.style).height.auto
           /\ Len(b.children) > 0
           /\ HeightsBefore(b, Len(b.children) + 1) > b.content.height
    /\ \E b \in LaidOut(root_box[1]) :
           /\ Deref(b.style).height.auto
           /\ Len(b.children) > 1
           /\ b.content.height > 0

\* C10, as stated: for every box of the returned tree the content
\* rectangle lies in the padding box, the padding box in the border box
\* and the border box in the margin box, each outer rectangle the inner
\* one grown by the used edges.
C10_ContainmentAll ==
    Returned =>
        \A b \in Boxes(root_box[1]) :
            /\ GrownBy(padding_box(b), b.content, b.padding)
            /\ GrownBy(border_box(b), padding_box(b), b.border)
            /\ GrownBy(margin_box(b), border_box(b), b.margin)
            /\ Contains(padding_box(b), b.content)
            /\ Contains(border_box(b), padding_box(b))
            /\ Contains(margin_box(b), border_box(b))

\* C10, amended: for every box of the returned tree each outer rectangle is
\* the inner one grown by the used edges, the content rectangle lies in
\* the padding box and the padding box in the border box; the border box
\* lies in the margin box just when the used margin-right is not negative,
\* which it is when the box overflows its containing block.
C10_Containment ==
    Returned =>
        \A b \in Boxes(root_box[1]) :
            /\ GrownBy(padding_box(b), b.content, b.padding)
            /\ GrownBy(border_box(b), padding_box(b), b.border)
            /\ GrownBy(margin_box(b), border_box(b), b.margin)
            /\ Contains(padding_box(b), b.content)
            /\ Contains(border_box(b), padding_box(b))
            /\ Contains(margin_box(b), border_box(b)) <=> b.margin.right >= 0
            /\ b.margin.right < 0 =>
                   /\ b \in LaidOut(root_box[1])
                   /\ Underflow(b) < 0

\* A box below the root with a positive used edge on every side of its
\* padding, border and margin: four rectangles each strictly inside the
\* next.
C10_Witness ==
    /\ Returned
    /\ \E i \in 1..Len(root_box[1].children) :
           LET b == root_box[1].children[i]
           IN  /\ b.content.width > 0 /\ b.content.height > 0
               /\ b.padding.left > 0 /\ b.padding.top > 0
               /\ b.border.right > 0 /\ b.border.bottom > 0
               /\ b.margin.left > 0 /\ b.margin.right > 0
               /\ b.margin.top > 0 /\ b.margin.bottom > 0
               /\ Contains(margin_box(b), border_box(b))
               /\ margin_box(b) # border_box(b)

-----------------------------------------------------------------------------
\* The layout pass over the tree

\* The box c, the k-th child of the box p, was laid out against p's content
\* rectangle: layout_block_children handed it that rectangle, with the
\* height the children before it had given it, as its containing block.
HandedContainer(c, p, k) ==
    c.container = Rect(p.content.x, p.content.y, p.content.width,
                       HeightsBefore(p, k))

\* The block box c has its used width, position and height resolved from
\* its style against its containing block.
Resolved(c) ==
    LET style == Deref(c.style)
    IN  /\ c.padding = style.padding
        /\ c.border = style.border
        /\ c.margin.top = (IF style.margin.top.auto THEN 0
                           ELSE style.margin.top.v)
        /\ c.margin.bottom = (IF style.margin.bottom.auto THEN 0
                              ELSE style.margin.bottom.v)
        /\ c.margin.left + c.border.left + c.padding.left + c.content.width
           + c.padding.right + c.border.right + c.margin.right
           = c.container.width
        /\ c.content.x = c.container.x + c.margin.left + c.border.left
                         + c.padding.left
        /\ c.content.y = c.container.y + c.container.height + c.margin.top
                         + c.border.top + c.padding.top
        /\ c.content.height = (IF style.height.auto
                               THEN HeightsBefore(c, Len(c.children) + 1)
                               ELSE style.height.v)

\* C11: layout coverage.  When layout_tree returns, the layout pass has
\* run on every box of the built tree: every child was handed its
\* parent's content rectangle as its containing block, and every block
\* box, at any depth and under any parent, has its used width, position
\* and height resolved against it.
C11_LayoutCoverage ==
    Returned =>
        /\ root_box[1].container = Rect(0, 0, as_Pixels(width), 0)
        /\ root_box[1].box_type = "Block" => Resolved(root_box[1])
        /\ \A p \in Boxes(root_box[1]) :
               \A k \in 1..Len(p.children) :
                   /\ HandedContainer(p.children[k], p, k)
                   /\ p.children[k].box_type = "Block" =>
                          Resolved(p.children[k])

-----------------------------------------------------------------------------
\* The order of the display list

\* The places of the boxes of the tree of b: the child indexes from b down.
RECURSIVE BoxPaths(_)
BoxPaths(b) ==
    {<<>>} \cup UNION {{<<k>> \o q : q \in BoxPaths(b.children[k])} :
                          k \in 1..Len(b.children)}

RECURSIVE BoxAt(_, _)
BoxAt(b, path) ==
    IF path = <<>> THEN b ELSE BoxAt(b.children[Head(path)], Tail(path))

\* The box at p comes before the box at q in pre-order: p is a proper
\* ancestor of q, or p branches off to an earlier sibling.
PreOrderBefore(p, q) ==
    \E n \in 0..Len(p) :
        /\ n <= Len(q)
        /\ SubSeq(p, 1, n) = SubSeq(q, 1, n)
        /\ IF n = Len(p) THEN n < Len(q)
           ELSE n < Len(q) /\ p[n + 1] < q[n + 1]

\* The five commands of the box b: the background over the border box,
\* then the left, right, top and bottom border strips.
CommandsOf(b) ==
    LET bx == b.content.x - b.padding.left - b.border.left
        by == b.content.y - b.padding.top - b.border.top
        bw == b.content.width + b.padding.left + b.padding.right
              + b.border.left + b.border.right
        bh == b.content.height + b.padding.top + b.padding.bottom
              + b.border.top + b.border.bottom
        fill == Deref(b.style).background_color
        edge == Deref(b.style).border_color
    IN  << [color |-> fill, x |-> bx, y |-> by, width |-> bw, height |-> bh],
           [color |-> edge, x |-> bx, y |-> by,
            width |-> b.border.left, height |-> bh],
           [color |-> edge, x |-> bx + bw - b.border.right, y |-> by,
            width |-> b.border.right, height |-> bh],
           [color |-> edge, x |-> bx, y |-> by,
            width |-> bw, height |-> b.border.top],
           [color |-> edge, x |-> bx, y |-> by + bh - b.border.bottom,
            width |-> bw, height |-> b.border.bottom] >>

\* The number of commands a display list holds before those of the box at
\* path: five for every box that comes before it in pre-order.
CommandsBefore(b, path) ==
    5 * Cardinality({q \in BoxPaths(b) : PreOrderBefore(q, path)})

\* l is the display list of the tree of b in pre-order.
PreOrdered(b, l) ==
    /\ Len(l) = 5 * Cardinality(BoxPaths(b))
    /\ \A path \in BoxPaths(b) :
           SubSeq(l, CommandsBefore(b, path) + 1, CommandsBefore(b, path) + 5)
           = CommandsOf(BoxAt(b, path))

\* C12: display-list order.  display_list emits the tree in pre-order: the
\* commands of a box are one contiguous group, the background over the
\* border box and then the left, right, top and bottom border strips; the
\* group of a box precedes the groups of its descendants, and the groups
\* of a whole subtree precede those of a later sibling; the emission
\* leaves the box tree unchanged.
C12_DisplayListOrder ==
    [][pc = "laid_out" => /\ root_box' = root_box
                          /\ PreOrdered(root_box[1], list')]_vars

\* A display list of a tree with a box that has a child and a later
\* sibling, and with borders of every thickness.
C12_Witness ==
    /\ pc = "listed"
    /\ \E k \in 1..Len(root_box[1].children) :
           /\ k < Len(root_box[1].children)
           /\ root_box[1].children[k].children # <<>>
           /\ root_box[1].children[k].border.left
                  # root_box[1].children[k].border.right
           /\ root_box[1].children[k].border.right
                  # root_box[1].children[k].border.top
           /\ root_box[1].children[k].content.height > 0
    /\ list[1].color # list[2].color

-----------------------------------------------------------------------------
\* The style of an anonymous box

\* The places of the anonymous boxes of the tree of b.
AnonymousPaths(b) == {path \in BoxPaths(b) : BoxAt(b, path).anonymous}

\* The place of the parent of the box at path.
ParentPath(path) == SubSeq(path, 1, Len(path) - 1)

\* layout reached the box at path: the box and the boxes above it are
\* block boxes.
LayoutReached(b, path) ==
    \A n \in 0..Len(path) : BoxAt(b, SubSeq(path, 1, n)).box_type = "Block"

\* The box a was laid out with the width, height, margins, padding and
\* borders of style.
LaidOutWith(a, style) ==
    /\ a.padding = style.padding
    /\ a.border = style.border
    /\ a.margin.top = (IF style.margin.top.auto THEN 0 ELSE style.margin.top.v)
    /\ a.margin.bottom = (IF style.margin.bottom.auto THEN 0
                          ELSE style.margin.bottom.v)
    /\ ~style.margin.left.auto => a.margin.left = style.margin.left.v
    /\ ~style.width.auto => a.content.width = style.width.v
    /\ ~style.height.auto => a.content.height = style.height.v

\* The commands of the box at path in the display list l carry the
\* background color fill and the border color edge.
CommandColors(b, l, path, fill, edge) ==
    /\ l[CommandsBefore(b, path) + 1].color = fill
    /\ \A i \in 2..5 : l[CommandsBefore(b, path) + i].color = edge

-----------------------------------------------------------------------------
\* The pixels a command paints

\* The pixel in column x and row y is the square from Px(x), Px(y) to
\* Px(x + 1), Px(y + 1).  It lies wholly inside the rectangle of item.
Covered(item, x, y) ==
    /\ item.x <= Px(x) /\ Px(x + 1) <= item.x + item.width
    /\ item.y <= Px(y) /\ Px(y + 1) <= item.y + item.height

\* The pixel and the rectangle of item have an area in common.
Touched(item, x, y) ==
    /\ item.x < Px(x + 1) /\ Px(x) < item.x + item.width
    /\ item.y < Px(y + 1) /\ Px(y) < item.y + item.height

\* The centre of the pixel lies in the rectangle of item.
CentreIn(item, x, y) ==
    /\ 2 * item.x <= Px(x) + Px(x + 1)
    /\ Px(x) + Px(x + 1) < 2 * (item.x + item.width)
    /\ 2 * item.y <= Px(y) + Px(y + 1)
    /\ Px(y) + Px(y + 1) < 2 * (item.y + item.height)

\* The whole pixel a length lies in: the length rounded down.
PixelOf(p) == p \div Px(1)

\* The pixel lies between the rounded-down edges of the rectangle of item.
Truncated(item, x, y) ==
    /\ PixelOf(item.x) <= x /\ x < PixelOf(item.x + item.width)
    /\ PixelOf(item.y) <= y /\ y < PixelOf(item.y + item.height)

\* The pixels a command writes, under each reading of `the pixels in the
\* rectangle`.
Writes(reading, item, x, y) ==
    CASE reading = "covered" -> Covered(item, x, y)
      [] reading = "touched" -> Touched(item, x, y)
      [] reading = "centre" -> CentreIn(item, x, y)
      [] reading = "truncated" -> Truncated(item, x, y)

\* The pixel (x, y) after the first n commands of l: white, then the
\* colors of the commands that write it, in list order.
Composited(reading, l, n, x, y) ==
    LET under[k \in 0..n] ==
            IF k = 0 THEN <<"white">>
            ELSE IF Writes(reading, l[k], x, y)
                 THEN Append(under[k - 1], l[k].color)
                 ELSE under[k - 1]
    IN  under[n]

\* Every pixel of the canvas is what the commands painted so far make of
\* it.
CanvasIs(reading) ==
    LET c == canvas[1]
    IN  /\ Len(c.pixels) = c.width * c.height
        /\ \A x \in 0..(c.width - 1), y \in 0..(c.height - 1) :
               c.pixels[y * c.width + x + 1]
               = Composited(reading, list, painted, x, y)

Painting == pc \in {"painting", "painted", "paint_panicked"}

\* C14 as stated: rasterizer clipping.  From a white canvas, for every
\* display list and every rectangle in it, paint_item indexes only pixels
\* of the canvas, modifies exactly the pixels in the intersection of the
\* rectangle with the canvas (the pixels wholly in it, or the pixels with
\* an area in it, or the pixels with their centre in it) and leaves every
\* other pixel unchanged, the commands composited in list order.
C14_ExactIntersection ==
    Painting =>
        /\ pc # "paint_panicked"
        /\ \/ CanvasIs("covered")
           \/ CanvasIs("touched")
           \/ CanvasIs("centre")

\* C14: rasterizer clipping.  From a white canvas, for every display list
\* and every rectangle in it, paint_item indexes only pixels of the canvas
\* and modifies exactly the canvas pixels that lie between the rectangle's
\* edges rounded down to whole pixels, leaving every other pixel
\* unchanged, the commands composited in list order.  These are all the
\* pixels wholly inside the rectangle and none wholly outside it, so
\* exactly the intersection when the edges fall on whole pixels.
C14_RasterClipping ==
    Painting =>
        /\ pc # "paint_panicked"
        /\ CanvasIs("truncated")
        /\ \A k \in 1..Len(list) :
               \A x \in 0..(canvas[1].width - 1), y \in 0..(canvas[1].height - 1) :
                   /\ Covered(list[k], x, y) => Truncated(list[k], x, y)
                   /\ Truncated(list[k], x, y) => Touched(list[k], x, y)
                   /\ (list[k].x % Px(1) = 0 /\ list[k].y % Px(1) = 0
                       /\ list[k].width % Px(1) = 0 /\ list[k].height % Px(1) = 0)
                      => (Touched(list[k], x, y) => Covered(list[k], x, y))

\* A returned canvas with a pixel painted twice, red under blue, a pixel
\* painted once and a pixel left white.
C14_Witness ==
    /\ pc = "painted"
    /\ painted = 2
    /\ \E i \in DOMAIN canvas[1].pixels :
           canvas[1].pixels[i] = <<"white", "red", "blue">>
    /\ \E i \in DOMAIN canvas[1].pixels : Len(canvas[1].pixels[i]) = 2
    /\ \E i \in DOMAIN canvas[1].pixels : canvas[1].pixels[i] = <<"white">>

====
